---- MODULE Spec2Model ----
(***************************************************************************)
(* A model of proton.api.Session (src/proton/api.py): the request engine   *)
(* with its alternative-routing detour, and the session manager            *)
(* (authenticate, provide_2fa, refresh, logout, dump, load).               *)
(*                                                                         *)
(* The public API is single-threaded per session and every outbound HTTPS  *)
(* call blocks, so a handler is a sequence of steps, one per network       *)
(* exchange: a step runs the handler's code from one exchange up to the    *)
(* next one (or to the handler's return or raise), every assignment in     *)
(* between included.  `call` and `frame` hold the handler's position.      *)
(* The server, the network and the DoH resolver are the environment: what  *)
(* they answer is drawn with \E at each exchange.                          *)
(***************************************************************************)
EXTENDS Integers, Sequences, FiniteSets, TLC

VARIABLES
    api_url,                        \* Session.__api_url
    appversion,                     \* Session.__appversion
    user_agent,                     \* Session.__user_agent
    allow_alternative_routes,       \* Session.__allow_alternative_routes
    force_skip_alternative_routing, \* Session.__force_skip_alternative_routing
    tls_pinning_enabled,            \* Session.__tls_pinning_enabled
    session_data,                   \* Session._session_data (a dict)
    headers,                        \* Session.s.headers (a dict)
    cookies,                        \* Session.s.cookies (the jar)
    adapters,                       \* Session.s.mount(): URL prefix -> pin set
    captcha_token,                  \* Session.__captcha_token
    route_cache,                    \* the MetadataBackend's stored route
    call,                           \* the public method being executed
    frame,                          \* the api_request being executed
    last,                           \* the HTTPS request sent by this step
    result,                         \* how the last public method ended
    since                           \* the logout or refresh the session is
                                    \* still in the wake of, if any

vars == <<api_url, appversion, user_agent, allow_alternative_routes,
          force_skip_alternative_routing, tls_pinning_enabled, session_data,
          headers, cookies, adapters, captcha_token, route_cache, call,
          frame, last, result, since>>

(***************************************************************************)
(* Bounds of the model.                                                    *)
(***************************************************************************)
NumTokens == 2          \* distinct AccessToken values the server issues
NumAltHosts == 2        \* alternative hosts the DoH resolver may return

(***************************************************************************)
(* Python values.                                                          *)
(***************************************************************************)
None == "<None>"

EmptyDict == [k \in {} |-> None]

Put(d, k, v) == [a \in DOMAIN d \cup {k} |-> IF a = k THEN v ELSE d[a]]

Del(d, k) == [a \in DOMAIN d \ {k} |-> d[a]]

Has(d, k) == k \in DOMAIN d

Get(d, k) == IF k \in DOMAIN d THEN d[k] ELSE None

Bearer(token) == "Bearer " \o token

(***************************************************************************)
(* The values the environment draws from.                                  *)
(***************************************************************************)
ApiUrl == "https://api"

AltHosts == {"alt" \o ToString(i) : i \in 1..NumAltHosts}

AltUrlOf(route) == "https://" \o route

AccessTokens == {"a" \o ToString(i) : i \in 1..NumTokens}

RefreshTokens == {"r2"}

UIDs == {"u1"}

ScopeStrings == {"", "mail vpn"}

\* str.split() on the Scope strings above.
Split(text) == IF text = "" THEN <<>> ELSE <<"mail", "vpn">>

ScopeList(text) == [kind |-> "list", text |-> "", items |-> Split(text)]

ScopeRaw(text) == [kind |-> "str", text |-> text, items |-> <<>>]

(***************************************************************************)
(* HTTP responses.  `cookie` is the value of a Set-Cookie header ("" for   *)
(* none), `json` tells whether the body decodes as JSON, `body` is the     *)
(* decoded object.                                                         *)
(***************************************************************************)
Response(status, json, body, cookie) ==
    [status |-> status, json |-> json, body |-> body, cookie |-> cookie]

NoResponse == Response(0, FALSE, EmptyDict, "")

Json(body) == Response(200, TRUE, body, "")

Code(n) == Put(EmptyDict, "Code", n)

\* Answers any endpoint may give: an error envelope, and a body that is not
\* JSON, with and without status 200.
CommonResponses ==
    { Response(422, TRUE, Code(2001), ""),
      Response(200, FALSE, EmptyDict, ""),
      Response(503, FALSE, EmptyDict, "") }

PlainResponses == { Json(Code(1000)) }

\* Answers of an endpoint behind human verification: Code 1001, Code 9001
\* with and without the token in Details, Code 12087, and a Code that is
\* none of these.
HumanVerificationTokens == {"hv1", "hv2"}

HumanVerificationResponses ==
    { Json(Code(1000)), Json(Code(1001)),
      Response(422, TRUE, Code(9001), ""),
      Response(422, TRUE, Code(12087), ""),
      Response(200, TRUE, Code(8002), "") }
    \cup { Response(422, TRUE,
                    Put(Code(9001), "Details",
                        Put(EmptyDict, "HumanVerificationToken", t)), "") :
             t \in HumanVerificationTokens }

\* /auth/info: the Modulus is an armored, signed blob; ServerEphemeral is
\* the SRP challenge B.
InfoBody(modulus, ephemeral) ==
    Put(Put(Put(Put(Put(Code(1000), "Modulus", modulus),
        "ServerEphemeral", ephemeral), "Salt", "c2FsdA=="),
        "Version", "4"), "SRPSession", "sess")

InfoResponses ==
    { Json(InfoBody(m, b)) : m \in {"signed", "wrong_key", "bad_signature", "malformed"},
                             b \in {"B", "B_zero"} }
    \cup { Json(Code(1000)) }

\* /auth: with a ServerProof that verifies, one that does not, or none, and
\* with or without the credential fields.
AuthBody(proof, uid, at, rt, scope) ==
    LET creds == Put(Put(Put(Put(Put(Code(1000), "UID", uid),
                     "AccessToken", at), "RefreshToken", rt),
                     "PasswordMode", "1"), "Scope", scope)
    IN  IF proof = None THEN creds ELSE Put(creds, "ServerProof", proof)

AuthResponses ==
    { Response(200, TRUE, AuthBody("M2", u, at, "r1", sc), c) :
        u \in UIDs, at \in AccessTokens, sc \in ScopeStrings,
        c \in {"", "c1"} }
    \cup { Json(AuthBody(p, "u1", "a1", "r1", "")) : p \in {None, "M2_forged"} }
    \cup { Json(Code(1000)), Json(Put(Code(1000), "ServerProof", "M2")) }

\* /auth/refresh: either token may be missing from the answer.
RefreshResponses ==
    { Json(Put(Put(Code(1000), "AccessToken", at), "RefreshToken", rt)) :
        at \in AccessTokens, rt \in RefreshTokens }
    \cup { Json(Put(Code(1000), "AccessToken", at)) : at \in AccessTokens }
    \cup { Json(Code(1000)) }

TwoFaResponses ==
    { Json(Put(Code(1000), "Scope", "mail vpn")) }
    \cup { Json(Code(1000)) }

ResponsesFor(endpoint, fct) ==
    CommonResponses \cup
    CASE endpoint = "/auth/info" -> InfoResponses
      [] endpoint = "/auth" /\ fct = "post" -> AuthResponses
      [] endpoint = "/auth/refresh" -> RefreshResponses
      [] endpoint = "/auth/2fa" -> TwoFaResponses
      [] endpoint = "/users" -> HumanVerificationResponses
      [] OTHER -> PlainResponses

(***************************************************************************)
(* The transport: requests.Session with its mounted adapters.              *)
(***************************************************************************)
\* The adapter requests picks for a URL: the one mounted for it, else the
\* default HTTPAdapter, which checks no pin.
AdapterFor(mounted, url) ==
    IF url \in DOMAIN mounted THEN mounted[url] ELSE "HTTPAdapter"

\* What fct(**kwargs) may raise: a pinning error needs a pinning adapter.
TransportExceptions(adapter) ==
    {"ConnectionError", "Timeout", "Exception"}
    \cup (IF adapter = "HTTPAdapter" THEN {} ELSE {"TLSPinningError"})

Raised(exc) == [exc |-> exc, resp |-> NoResponse]

Answered(resp) == [exc |-> "", resp |-> resp]

Outcomes(adapter, endpoint, fct) ==
    { Raised(e) : e \in TransportExceptions(adapter) }
    \cup { Answered(r) : r \in ResponsesFor(endpoint, fct) }

\* __make_request: the exception classes it raises.
MakeRequestError(exc) ==
    CASE exc = "ConnectionError" -> "NewConnectionError"
      [] exc = "Timeout" -> "ConnectionTimeOutError"
      [] exc = "TLSPinningError" -> "TLSPinningError"
      [] OTHER -> "UnknownConnectionError"

RetryableErrors ==
    {"NewConnectionError", "ConnectionTimeOutError", "TLSPinningError"}

\* requests stores a Set-Cookie of the response under the request's host.
CookiesAfter(jar, url, resp) ==
    IF resp.cookie = "" THEN jar
    ELSE { c \in jar : c.domain # url } \cup
         { [domain |-> url, name |-> "Session-Id", value |-> resp.cookie] }

(***************************************************************************)
(* The Route Cache (the metadata backend).                                 *)
(***************************************************************************)
NoRoute == [url |-> "", expired |-> FALSE]

try_original_url(cache, allow, force_skip) ==
    \/ force_skip
    \/ allow # "True"
    \/ cache.url = ""
    \/ cache.expired

get_alternative_url(cache) == cache.url

store_alternative_route(url) == [url |-> url, expired |-> FALSE]

(***************************************************************************)
(* api_request, up to the first transport attempt.                         *)
(***************************************************************************)
Lower(method) ==
    CASE method = "DELETE" -> "delete"
      [] method = "POST" -> "post"
      [] OTHER -> method

\* Lines 197-214: the requests function the call uses, None for a method
\* that is none of get, post, put, delete, patch.
SelectFct(method, jsondata) ==
    IF method = None
    THEN (IF jsondata = None THEN "get" ELSE "post")
    ELSE IF Lower(method) \in {"get", "post", "put", "delete", "patch"}
         THEN Lower(method)
         ELSE None

\* An api_request that never looks at the Route Cache.
SelectOriginalUrl(cache, allow, force_skip) == [url |-> api_url, verify |-> TRUE]

\* Lines 216-224: the URL of the first attempt and its verify flag.
SelectUrl(cache, allow, force_skip) ==
    IF ~try_original_url(cache, allow, force_skip)
    THEN [url |-> get_alternative_url(cache), verify |-> FALSE]
    ELSE [url |-> api_url, verify |-> TRUE]

(***************************************************************************)
(* api_request, lines 263-299: decoding the response.  The result is what  *)
(* api_request returns or raises, with the captcha token and the headers   *)
(* it leaves behind.                                                       *)
(***************************************************************************)
Returned(raw, body, captcha, hdrs) ==
    [exc |-> "", raw |-> raw, body |-> body, captcha |-> captcha,
     headers |-> hdrs]

Raise(exc, captcha, hdrs) ==
    [exc |-> exc, raw |-> FALSE, body |-> EmptyDict, captcha |-> captcha,
     headers |-> hdrs]

\* The deleter of human_verification_token.
DelHumanVerificationToken(hdrs) ==
    Del(Del(hdrs, "X-PM-Human-Verification-Token-Type"),
        "X-PM-Human-Verification-Token")

Decode(resp, captcha, hdrs) ==
    IF ~resp.json
    THEN IF resp.status # 200
         THEN Raise("ProtonAPIError", captcha, hdrs)
         ELSE Returned(TRUE, EmptyDict, captcha, hdrs)
    ELSE IF ~Has(resp.body, "Code")
         THEN Raise("KeyError", captcha, hdrs)
    ELSE IF resp.body.Code \in {1000, 1001}
         THEN Returned(FALSE, resp.body, captcha, hdrs)
    ELSE IF resp.body.Code = 9001
         THEN IF /\ Has(resp.body, "Details")
                 /\ Has(resp.body.Details, "HumanVerificationToken")
              THEN Raise("ProtonAPIError",
                         resp.body.Details.HumanVerificationToken, hdrs)
              ELSE Raise("KeyError", captcha, hdrs)
    ELSE IF resp.body.Code = 12087
         THEN Raise("ProtonAPIError", captcha, DelHumanVerificationToken(hdrs))
    ELSE Raise("ProtonAPIError", captcha, hdrs)

(***************************************************************************)
(* The position of the running handler.                                    *)
(***************************************************************************)
NoPre == [session_data |-> EmptyDict, uid |-> None, auth |-> None]

\* The credentials and the two authentication headers, as a call finds them.
Snapshot ==
    [session_data |-> session_data, uid |-> Get(headers, "x-pm-uid"),
     auth |-> Get(headers, "Authorization")]

Idle == [op |-> "idle", stage |-> "", pre |-> NoPre, io |-> FALSE]

NewCall(op, stage, pre) == [op |-> op, stage |-> stage, pre |-> pre, io |-> FALSE]

\* The locals of get_alternative_routes_from_dns: how many encoded names
\* were queried, the responses collected for the last of them, and routes.
NoDns == [queried |-> 0, dns_hosts_response |-> <<>>, routes |-> {}]

\* The ThreadPoolExecutor of a turn of the resolver: whether it is running,
\* what becomes of each worker, the result of each worker's future and the
\* order in which the workers completed.
NoPool == [running |-> FALSE, fates |-> <<>>, futures |-> <<>>,
           completed |-> <<>>]

NoFrame ==
    [endpoint |-> "", method |-> None, jsondata |-> None, phase |-> "none",
     url |-> "", verify |-> TRUE, exception_class |-> None, routes |-> <<>>,
     probes |-> 0, resolved |-> 0, dns |-> NoDns, pool |-> NoPool]

NewFrame(endpoint, method, jsondata) ==
    [NoFrame EXCEPT !.endpoint = endpoint, !.method = method,
                    !.jsondata = jsondata, !.phase = "first"]

NoRequest ==
    [sent |-> FALSE, url |-> "", verify |-> TRUE, adapter |-> "", uid |-> None,
     auth |-> None, phase |-> "", answered |-> FALSE, resp |-> NoResponse]

\* __make_request: the request as requests sends it, with the session's
\* headers merged in and the adapter mounted for its URL, and the
\* response that came back, if one did.
Request(mounted, url, verify, phase, outcome) ==
    [sent |-> TRUE, url |-> url, verify |-> verify,
     adapter |-> AdapterFor(mounted, url), uid |-> Get(headers, "x-pm-uid"),
     auth |-> Get(headers, "Authorization"), phase |-> phase,
     answered |-> outcome.exc = "", resp |-> outcome.resp]

\* What the last call that ended did: its method, how it ended, whether it
\* got as far as the network, whether the session held data when it began
\* and what authenticate made of the server proof.
NoResult ==
    [op |-> "none", status |-> "", io |-> FALSE, held |-> FALSE,
     server_proof |-> "unchecked"]

\* `since` names the logout or refresh that returned last, until a later
\* authenticate returns (after a logout) or a later refresh, authenticate or
\* logout begins (after a refresh); a refresh goes with the tokens of its
\* /auth/refresh response.
NoSince == [op |-> "", AccessToken |-> None, RefreshToken |-> None]

SinceLogout == [NoSince EXCEPT !.op = "logout"]

(***************************************************************************)
(* The PGP verifier and the SRP client, as the session uses them.          *)
(***************************************************************************)
SRP_MODULUS_KEY_FINGERPRINT == "fingerprint of SRP_MODULUS_KEY"

\* gnupg.GPG.decrypt on the armored Modulus values the server may send.
GpgDecrypt(armored) ==
    CASE armored = "signed" ->
            [valid |-> TRUE, fingerprint |-> "FINGERPRINT OF SRP_MODULUS_KEY"]
      [] armored = "wrong_key" ->
            [valid |-> TRUE, fingerprint |-> "FINGERPRINT OF ANOTHER KEY"]
      [] OTHER -> [valid |-> FALSE, fingerprint |-> None]

\* str.lower() on the fingerprints above.
LowerFingerprint(fingerprint) ==
    CASE fingerprint = "FINGERPRINT OF SRP_MODULUS_KEY" ->
            "fingerprint of SRP_MODULUS_KEY"
      [] fingerprint = "FINGERPRINT OF ANOTHER KEY" ->
            "fingerprint of another key"
      [] OTHER -> fingerprint

\* A verifier that accepts whatever it is given.
AnyModulus(armored_modulus) == TRUE

\* verify_modulus: TRUE when it returns the modulus, FALSE when it raises.
verify_modulus(armored_modulus) ==
    LET verified == GpgDecrypt(armored_modulus)
    IN  /\ verified.valid
        /\ LowerFingerprint(verified.fingerprint) = SRP_MODULUS_KEY_FINGERPRINT

\* PmsrpUser.process_challenge: None for a challenge B with B mod N = 0.
process_challenge(server_challenge) ==
    IF server_challenge = "B_zero" THEN None ELSE "M1"

\* PmsrpUser.verify_session followed by authenticated().
authenticated(server_proof) == server_proof = "M2"

(***************************************************************************)
(* The session manager: what each public method does with the result of    *)
(* its api_request.  A continuation is either Done (the method returns or  *)
(* raises) or More (the method goes on to its next api_request).           *)
(***************************************************************************)
Done(status, data, hdrs, proof) ==
    [done |-> TRUE, status |-> status, data |-> data, hdrs |-> hdrs,
     stage |-> "", next |-> NoFrame, server_proof |-> proof]

More(stage, next, data, hdrs) ==
    [done |-> FALSE, status |-> "", data |-> data, hdrs |-> hdrs,
     stage |-> stage, next |-> next, server_proof |-> "unchecked"]

Status(res) == IF res.exc = "" THEN "returned" ELSE res.exc

\* logout, lines 457-459, after DELETE /auth returned.
\* A logout that sends the DELETE and leaves the session as it is.
AfterLogoutKeepsAll(data, hdrs) == [exc |-> "", data |-> data, hdrs |-> hdrs]

AfterLogout(data, hdrs) ==
    IF ~Has(hdrs, "Authorization")
    THEN [exc |-> "KeyError", data |-> data, hdrs |-> hdrs]
    ELSE IF ~Has(hdrs, "x-pm-uid")
         THEN [exc |-> "KeyError", data |-> data,
               hdrs |-> Del(hdrs, "Authorization")]
         ELSE [exc |-> "", data |-> EmptyDict,
               hdrs |-> Del(Del(hdrs, "Authorization"), "x-pm-uid")]

LogoutDone(res) ==
    IF res.exc # ""
    THEN Done(res.exc, session_data, res.headers, "unchecked")
    ELSE LET a == AfterLogout(session_data, res.headers)
         IN  Done(Status(a), a.data, a.hdrs, "unchecked")

\* authenticate, line 381 onwards, after its logout's DELETE /auth returned.
AuthenticateAfterLogout(res) ==
    IF res.exc # ""
    THEN Done(res.exc, session_data, res.headers, "unchecked")
    ELSE LET a == AfterLogout(session_data, res.headers)
         IN  IF a.exc # ""
             THEN Done(a.exc, a.data, a.hdrs, "unchecked")
             ELSE More("info", NewFrame("/auth/info", None, "payload"),
                       a.data, a.hdrs)

\* authenticate, lines 387-413, after /auth/info returned.
AuthenticateAfterInfo(res) ==
    LET fail(exc) == Done(exc, session_data, res.headers, "unchecked")
        info_response == res.body
    IN  IF res.exc # "" THEN fail(res.exc)
        ELSE IF res.raw THEN fail("TypeError")
        ELSE IF ~Has(info_response, "Modulus") THEN fail("KeyError")
        ELSE IF ~verify_modulus(info_response.Modulus)
             THEN fail("ValueError: Invalid modulus")
        ELSE IF ~({"ServerEphemeral", "Salt", "Version"} \subseteq DOMAIN info_response)
             THEN fail("KeyError")
        ELSE IF process_challenge(info_response.ServerEphemeral) = None
             THEN fail("ValueError: Invalid challenge")
        ELSE IF ~Has(info_response, "SRPSession") THEN fail("KeyError")
        ELSE More("auth", NewFrame("/auth", None, "payload"),
                  session_data, res.headers)

\* What the SRP client makes of the ServerProof of an /auth response.
ProofOf(res) ==
    IF res.raw \/ ~Has(res.body, "ServerProof") THEN "missing"
    ELSE IF authenticated(res.body.ServerProof) THEN "verified"
    ELSE "rejected"

\* An authenticate that takes any server proof.
AnyServerProof(auth_response) == FALSE

\* Lines 418-420: verify_session, then `if not usr.authenticated()`.
InvalidServerProof(auth_response) == ~authenticated(auth_response.ServerProof)

\* authenticate, lines 415-434, after /auth returned.
AuthenticateAfterAuth(res) ==
    LET fail(exc, proof) == Done(exc, session_data, res.headers, proof)
        auth_response == res.body
    IN  IF res.exc # "" THEN fail(res.exc, "unchecked")
        ELSE IF res.raw \/ ~Has(auth_response, "ServerProof")
             THEN fail("ValueError: Invalid password", ProofOf(res))
        ELSE IF InvalidServerProof(auth_response)
             THEN fail("ValueError: Invalid server proof", ProofOf(res))
        ELSE IF ~({"UID", "AccessToken", "RefreshToken", "PasswordMode",
                   "Scope"} \subseteq DOMAIN auth_response)
             THEN fail("KeyError", ProofOf(res))
        ELSE LET data == [k \in {"UID", "AccessToken", "RefreshToken",
                                 "PasswordMode", "Scope"} |->
                            IF k = "Scope"
                            THEN ScopeList(auth_response.Scope)
                            ELSE auth_response[k]]
                 hdrs == IF Get(data, "UID") # None
                         THEN Put(Put(res.headers, "x-pm-uid", data.UID),
                                  "Authorization", Bearer(data.AccessToken))
                         ELSE res.headers
             IN  Done("returned", data, hdrs, ProofOf(res))

\* provide_2fa, lines 448-451.
Provide2faDone(res) ==
    LET fail(exc) == Done(exc, session_data, res.headers, "unchecked")
    IN  IF res.exc # "" THEN fail(res.exc)
        ELSE IF res.raw THEN fail("TypeError")
        ELSE IF ~Has(res.body, "Scope") THEN fail("KeyError")
        ELSE Done("returned",
                  Put(session_data, "Scope", ScopeRaw(res.body.Scope)),
                  res.headers, "unchecked")

\* A refresh that leaves the Authorization header as it is.
StaleAuthorization(hdrs, data) == hdrs

\* Line 479: self.s.headers["Authorization"] = "Bearer " + self.AccessToken.
NewAuthorization(hdrs, data) ==
    Put(hdrs, "Authorization", Bearer(data.AccessToken))

\* refresh, lines 477-479.
RefreshDone(res) ==
    LET fail(exc, data) == Done(exc, data, res.headers, "unchecked")
        refresh_response == res.body
    IN  IF res.exc # "" THEN fail(res.exc, session_data)
        ELSE IF res.raw THEN fail("TypeError", session_data)
        ELSE IF ~Has(refresh_response, "AccessToken")
             THEN fail("KeyError", session_data)
        ELSE LET d1 == Put(session_data, "AccessToken",
                           refresh_response.AccessToken)
             IN  IF ~Has(refresh_response, "RefreshToken")
                 THEN fail("KeyError", d1)
                 ELSE LET d2 == Put(d1, "RefreshToken",
                                    refresh_response.RefreshToken)
                      IN  Done("returned", d2,
                               NewAuthorization(res.headers, d2),
                               "unchecked")

ApiRequestDone(res) ==
    Done(Status(res), session_data, res.headers, "unchecked")

Continuation(c, res) ==
    CASE c.op = "api_request" -> ApiRequestDone(res)
      [] c.op = "logout" -> LogoutDone(res)
      [] c.op = "provide_2fa" -> Provide2faDone(res)
      [] c.op = "refresh" -> RefreshDone(res)
      [] c.op = "authenticate" /\ c.stage = "logout" -> AuthenticateAfterLogout(res)
      [] c.op = "authenticate" /\ c.stage = "info" -> AuthenticateAfterInfo(res)
      [] OTHER -> AuthenticateAfterAuth(res)

(***************************************************************************)
(* The end of an api_request: the running method takes its result `res`    *)
(* and either ends (call and frame are cleared, `result` is set) or goes   *)
(* on to its next api_request.  `mark` is the value of `since` the step     *)
(* starts from.                                                            *)
(***************************************************************************)
\* A refresh, authenticate or logout that begins ends the wake of a refresh.
Begun(op, mark) ==
    IF mark.op = "refresh" /\ op \in {"refresh", "authenticate", "logout"}
    THEN NoSince
    ELSE mark

Finish(c, res, io, mark) ==
    LET k == Continuation(c, res)
        returned == k.done /\ k.status = "returned"
    IN  /\ session_data' = k.data
        /\ headers' = k.hdrs
        /\ captcha_token' = res.captcha
        /\ IF k.done
           THEN /\ call' = Idle
                /\ frame' = NoFrame
                /\ result' = [op |-> c.op, status |-> k.status, io |-> io,
                              held |-> c.pre.session_data # EmptyDict,
                              server_proof |-> k.server_proof]
           ELSE /\ call' = [c EXCEPT !.stage = k.stage, !.io = io]
                /\ frame' = k.next
                /\ result' = result
        /\ since' =
             IF c.op = "authenticate" /\ returned THEN NoSince
             ELSE IF c.op = "logout" /\ returned THEN SinceLogout
             ELSE IF c.op = "authenticate" /\ c.stage = "logout" /\ ~k.done
                  THEN SinceLogout
             ELSE IF c.op = "refresh" /\ returned
                  THEN [op |-> "refresh",
                        AccessToken |-> res.body.AccessToken,
                        RefreshToken |-> res.body.RefreshToken]
             ELSE Begun(c.op, mark)

\* The api_request stays suspended at its next network exchange.
Suspend(c, f, mark) ==
    /\ call' = [c EXCEPT !.io = TRUE]
    /\ frame' = f
    /\ since' = Begun(c.op, mark)
    /\ UNCHANGED <<session_data, headers, captcha_token, result>>

(***************************************************************************)
(* api_request, lines 191-261, up to the outcome of the first attempt.     *)
(***************************************************************************)
\* An api_request that goes on whatever the policy.
PolicyNeverUnset(allow) == FALSE

\* Line 191: `if self.__allow_alternative_routes is None`.
PolicyUnset(allow) == allow = None

\* A line 254 that does not look at force-skip.
RaisesIgnoringForceSkip(exception_class, allow, force_skip) ==
    exception_class \notin RetryableErrors \/ allow # "True"

\* Lines 249-256: the transport error of the first attempt is raised at
\* once when it is an UnknownConnectionError, when alternative routing is
\* disabled or when force-skip is set.
RaisesAtOnce(exception_class, allow, force_skip) ==
    \/ exception_class \notin RetryableErrors
    \/ allow # "True"
    \/ force_skip

Attempt(c, f, mark) ==
    LET fct == SelectFct(f.method, f.jsondata)
        sel == SelectUrl(route_cache, allow_alternative_routes,
                         force_skip_alternative_routing)
        fail(exc) == /\ Finish(c, Raise(exc, captcha_token, headers), c.io, mark)
                     /\ last' = NoRequest
                     /\ UNCHANGED cookies
    IN  /\ UNCHANGED <<adapters, route_cache>>
        /\ IF PolicyUnset(allow_alternative_routes) THEN fail("RuntimeError")
           ELSE IF fct = None THEN fail("ValueError")
           ELSE \E o \in Outcomes(AdapterFor(adapters, sel.url), f.endpoint, fct) :
                /\ last' = Request(adapters, sel.url, sel.verify, "first", o)
                /\ IF o.exc = ""
                   THEN /\ cookies' = CookiesAfter(cookies, sel.url, o.resp)
                        /\ Finish(c, Decode(o.resp, captcha_token, headers),
                                  TRUE, mark)
                   ELSE LET exception_class == MakeRequestError(o.exc)
                        IN  /\ UNCHANGED cookies
                            /\ IF RaisesAtOnce(exception_class,
                                               allow_alternative_routes,
                                               force_skip_alternative_routing)
                               THEN Finish(c, Raise(exception_class, captcha_token,
                                                    headers), TRUE, mark)
                               ELSE Suspend(c, [f EXCEPT !.phase = "probe",
                                                   !.url = sel.url,
                                                   !.verify = sel.verify,
                                                   !.exception_class = exception_class],
                                            mark)

(***************************************************************************)
(* _is_api_reacheable: api_request("/tests/ping") with alternative routing *)
(* skipped.  A transport error makes it return False; an answer that       *)
(* decodes makes it return True, and the outer api_request goes on to      *)
(* line 263 with no response bound; anything else propagates.              *)
(***************************************************************************)
Probe ==
    /\ frame.phase = "probe"
    /\ LET sel == SelectUrl(route_cache, allow_alternative_routes,
                            force_skip_alternative_routing)
       IN  \E o \in Outcomes(AdapterFor(adapters, sel.url), "/tests/ping", "get") :
           /\ last' = Request(adapters, sel.url, sel.verify, "probe", o)
           /\ UNCHANGED <<adapters, route_cache>>
           /\ IF o.exc = ""
              THEN /\ cookies' = CookiesAfter(cookies, sel.url, o.resp)
                   /\ LET d == Decode(o.resp, captcha_token, headers)
                      IN  IF d.exc # ""
                          THEN Finish(call, d, TRUE, since)
                          ELSE Finish(call, Raise("UnboundLocalError", d.captcha,
                                                  d.headers), TRUE, since)
              ELSE /\ UNCHANGED cookies
                   /\ IF MakeRequestError(o.exc) \in RetryableErrors
                      THEN Suspend(call, [frame EXCEPT !.phase = "doh",
                                                       !.probes = @ + 1], since)
                      ELSE Finish(call, Raise(MakeRequestError(o.exc),
                                              captcha_token, headers), TRUE, since)

(***************************************************************************)
(* __try_with_alt_routing, lines 301-329.                                  *)
(***************************************************************************)
\* The orders in which a for loop may go through a set.
Orders(S) ==
    { q \in [1..Cardinality(S) -> S] :
        \A i, j \in 1..Cardinality(S) : q[i] = q[j] => i = j }

(***************************************************************************)
(* The DoH resolver, lines 481-610.                                        *)
(***************************************************************************)
\* The DoH providers and the encoded names, in the order of the lists.
DNS_HOSTS == <<"doh1", "doh2">>

ENCODED_URLS == <<"name1", "name2">>

\* The body of a DoH response: nothing, bytes that are no DNS message, or a
\* DNS message with its answer section, a sequence of RRsets.
NoContent == [none |-> TRUE, len |-> 0, wire |-> FALSE, answer |-> <<>>]

EmptyContent == [none |-> FALSE, len |-> 0, wire |-> FALSE, answer |-> <<>>]

Garbage == [none |-> FALSE, len |-> 1, wire |-> FALSE, answer |-> <<>>]

Message(answer) == [none |-> FALSE, len |-> 1, wire |-> TRUE, answer |-> answer]

\* str() of a TXT record holding a hostname: the text between quotes.
Txt(host) == <<"\"", host, "\"">>

\* The messages a provider may answer with: no TXT record, the TXT record
\* of one host, or the TXT records of all of them.
Messages ==
    { Message(<<>>), Message(<< { Txt(h) : h \in AltHosts } >>) }
    \cup { Message(<< { Txt(h) } >>) : h \in AltHosts }

\* What becomes of one worker's requests.get: an exception, a response, or
\* a worker still running at the deadline.
Worker(exc, status, content, finished) ==
    [exc |-> exc, status |-> status, content |-> content, finished |-> finished]

WorkerFates ==
    { Worker(e, 0, NoContent, TRUE) : e \in {"ConnectionError", "Timeout"} }
    \cup { Worker("", 404, Garbage, TRUE), Worker("", 200, EmptyContent, TRUE),
           Worker("", 200, Garbage, TRUE), Worker("", 0, NoContent, FALSE) }
    \cup { Worker("", 200, m, TRUE) : m \in Messages }

\* __query_for_dns_data, lines 557-586.
query_for_dns_data(fate) ==
    IF fate.exc # "" THEN NoContent
    ELSE IF fate.status = 404 THEN NoContent
    ELSE fate.content

\* Line 521: `if dns_url`.
Truthy(content) == ~content.none /\ content.len > 0

RECURSIVE Filter(_)
Filter(responses) ==
    IF responses = <<>> THEN <<>>
    ELSE (IF Truthy(Head(responses)) THEN <<Head(responses)>> ELSE <<>>)
         \o Filter(Tail(responses))

\* str.strip("\""): the quotes at both ends are removed.
RECURSIVE Strip(_)
Strip(text) ==
    IF text = <<>> THEN ""
    ELSE IF Head(text) = "\"" THEN Strip(Tail(text))
    ELSE IF text[Len(text)] = "\"" THEN Strip(SubSeq(text, 1, Len(text) - 1))
    ELSE Head(text)

\* __extract_dns_answer, lines 588-610: the routes of the last RRset of the
\* answer section; message.from_wire raises on bytes that are no message.
RECURSIVE LastRRset(_, _)
LastRRset(answer, routes) ==
    IF answer = <<>> THEN routes
    ELSE LastRRset(Tail(answer), { Strip(url) : url \in Head(answer) })

extract_dns_answer(query_content) ==
    IF ~query_content.wire THEN [exc |-> "DNSException", routes |-> {}]
    ELSE [exc |-> "", routes |-> LastRRset(query_content.answer, {})]

\* Lines 526-527: `for response in dns_hosts_response: routes = ...`.
RECURSIVE ExtractAll(_, _)
ExtractAll(dns_hosts_response, routes) ==
    IF dns_hosts_response = <<>> THEN [exc |-> "", routes |-> routes]
    ELSE LET r == extract_dns_answer(Head(dns_hosts_response))
         IN  IF r.exc # "" THEN r
             ELSE ExtractAll(Tail(dns_hosts_response), r.routes)

\* Lines 497-535, called at line 302: what a turn of the loop over the
\* encoded names does with the results `collected` from the workers, with
\* the import before the first turn and the return after the last.  The
\* caller goes on to its loop over the routes, which raises NetworkError
\* when there is none.
Conclude(dnspython, timed_out, collected, pool) ==
    LET fail(exc) == Finish(call, Raise(exc, captcha_token, headers),
                            TRUE, since)
        queried == frame.dns.queried + 1
        dns_hosts_response == Filter(collected)
        extracted == ExtractAll(dns_hosts_response, frame.dns.routes)
        dns == [queried |-> queried,
                dns_hosts_response |-> dns_hosts_response,
                routes |-> extracted.routes]
    IN  IF queried = 1 /\ ~dnspython THEN fail("MissingDepedencyError")
        ELSE IF timed_out THEN fail("TimeoutError")
        ELSE IF extracted.exc # "" THEN fail(extracted.exc)
        ELSE IF extracted.routes = {} /\ queried < Len(ENCODED_URLS)
             THEN Suspend(call, [frame EXCEPT !.dns = dns, !.pool = pool],
                          since)
        ELSE IF extracted.routes = {} THEN fail("NetworkError")
        ELSE \E order \in Orders(extracted.routes) :
                Suspend(call, [frame EXCEPT !.phase = "alt",
                                            !.routes = order,
                                            !.verify = FALSE,
                                            !.resolved = @ + 1,
                                            !.dns = dns,
                                            !.pool = pool], since)

\* One turn of the resolver as one step.  `Fates` are the fates the workers
\* of this turn may meet, one per provider.
Resolve(Fates) ==
    /\ frame.phase = "doh"
    /\ ~frame.pool.running
    /\ last' = NoRequest
    /\ UNCHANGED <<adapters, route_cache, cookies>>
    /\ \E dnspython \in BOOLEAN, fates \in Fates :
          Conclude(dnspython,
                   \E h \in DOMAIN DNS_HOSTS : ~fates[h].finished,
                   [h \in DOMAIN DNS_HOSTS |-> query_for_dns_data(fates[h])],
                   NoPool)

\* The same turn worker by worker.  Lines 497-518: the import, and
\* executor.map submits one __query_for_dns_data per provider.
Submit(Fates) ==
    /\ frame.phase = "doh"
    /\ ~frame.pool.running
    /\ last' = NoRequest
    /\ UNCHANGED <<adapters, route_cache, cookies>>
    /\ \E dnspython \in BOOLEAN, fates \in Fates :
          IF frame.dns.queried = 0 /\ ~dnspython
          THEN Conclude(FALSE, FALSE, <<>>, NoPool)
          ELSE Suspend(call,
                       [frame EXCEPT !.pool =
                           [running |-> TRUE, fates |-> fates,
                            futures |-> [h \in DOMAIN DNS_HOSTS |-> NoContent],
                            completed |-> <<>>]], since)

\* A worker completes: the return value of its __query_for_dns_data becomes
\* the result of its own future.
WorkerDone ==
    /\ frame.pool.running
    /\ last' = NoRequest
    /\ UNCHANGED <<adapters, route_cache, cookies>>
    /\ \E h \in DOMAIN DNS_HOSTS :
          /\ frame.pool.fates[h].finished
          /\ \A i \in DOMAIN frame.pool.completed : frame.pool.completed[i] # h
          /\ Suspend(call,
                     [frame EXCEPT
                        !.pool.futures[h] = query_for_dns_data(frame.pool.fates[h]),
                        !.pool.completed = Append(@, h)], since)

\* A pool that hands out the results in the order of completion.
CompletionOrder(completed) == completed

\* Lines 518-520: executor.map yields the results in the order of the
\* iterable it was given, the order of DNS_HOSTS.
ConsumptionOrder(completed) == [h \in DOMAIN DNS_HOSTS |-> h]

\* Lines 518-530: list(executor.map(..., timeout=20)) once every worker
\* that will finish has finished, and the rest of the turn.
Collect ==
    /\ frame.pool.running
    /\ \A h \in DOMAIN DNS_HOSTS :
          frame.pool.fates[h].finished =>
             \E i \in DOMAIN frame.pool.completed : frame.pool.completed[i] = h
    /\ last' = NoRequest
    /\ UNCHANGED <<adapters, route_cache, cookies>>
    /\ LET timed_out == \E h \in DOMAIN DNS_HOSTS : ~frame.pool.fates[h].finished
           order == ConsumptionOrder(frame.pool.completed)
       IN  Conclude(TRUE, timed_out,
                    [i \in DOMAIN order |-> frame.pool.futures[order[i]]],
                    [frame.pool EXCEPT !.running = FALSE])

\* A loop that does not advance.
SameRoutes(routes) == routes

\* Line 307: `for route in alternative_routes` moves on to the next route.
RemainingRoutes(routes) == Tail(routes)

\* Lines 307-329: one turn of the loop over the routes.
AltTry ==
    /\ frame.phase = "alt"
    /\ LET route == Head(frame.routes)
           _alt_url == AltUrlOf(route)
           fct == SelectFct(frame.method, frame.jsondata)
           mounted == IF tls_pinning_enabled
                      THEN Put(adapters, _alt_url, "ALT")
                      ELSE adapters
       IN  /\ adapters' = mounted
           /\ \E o \in Outcomes(AdapterFor(mounted, _alt_url), frame.endpoint, fct) :
              /\ last' = Request(mounted, _alt_url, FALSE, "alt", o)
              /\ IF o.exc = ""
                 THEN /\ route_cache' = store_alternative_route(_alt_url)
                      /\ cookies' = CookiesAfter(cookies, _alt_url, o.resp)
                      /\ IF o.resp.status >= 400
                         THEN Finish(call, Raise("NetworkError", captcha_token,
                                                 headers), TRUE, since)
                         ELSE Finish(call, Decode(o.resp, captcha_token, headers),
                                     TRUE, since)
                 ELSE /\ UNCHANGED <<route_cache, cookies>>
                      /\ IF RemainingRoutes(frame.routes) = <<>>
                         THEN Finish(call, Raise("NetworkError", captcha_token,
                                                 headers), TRUE, since)
                         ELSE Suspend(call,
                                      [frame EXCEPT
                                         !.routes = RemainingRoutes(@)],
                                      since)

(***************************************************************************)
(* dump and load.                                                          *)
(***************************************************************************)
\* RequestsCookieJar.get_dict(): name -> value, domains dropped.
get_dict(jar) ==
    [n \in {c.name : c \in jar} |-> (CHOOSE c \in jar : c.name = n).value]

\* requests.utils.add_dict_to_cookiejar: one cookie per name, no domain.
add_dict_to_cookiejar(dict) ==
    { [domain |-> "", name |-> n, value |-> dict[n]] : n \in DOMAIN dict }

dump ==
    [api_url |-> api_url, appversion |-> appversion, User_Agent |-> user_agent,
     cookies |-> get_dict(cookies), session_data |-> session_data]

\* Session.__init__, lines 138-169: the fields of a new session.
NewSession(url, version, agent, tls_pinning) ==
    [api_url |-> url, appversion |-> version, user_agent |-> agent,
     tls_pinning_enabled |-> tls_pinning,
     allow_alternative_routes |-> None,
     force_skip_alternative_routing |-> FALSE,
     session_data |-> EmptyDict,
     adapters |-> IF tls_pinning THEN Put(EmptyDict, url, "PRIMARY")
                  ELSE EmptyDict,
     headers |-> Put(Put(EmptyDict, "x-pm-appversion", version),
                     "User-Agent", agent),
     cookies |-> {},
     captcha_token |-> None]

\* Session.load, lines 76-95.
load(d, tls_pinning) ==
    LET s == NewSession(d.api_url, d.appversion, d.User_Agent, tls_pinning)
        UID == Get(d.session_data, "UID")
    IN  [s EXCEPT !.cookies = add_dict_to_cookiejar(d.cookies),
                  !.session_data = d.session_data,
                  !.headers = IF UID # None
                              THEN Put(Put(@, "x-pm-uid", UID), "Authorization",
                                       Bearer(d.session_data.AccessToken))
                              ELSE @]

\* The variables hold the session s; no method is running.
Becomes(s) ==
    /\ api_url' = s.api_url
    /\ appversion' = s.appversion
    /\ user_agent' = s.user_agent
    /\ tls_pinning_enabled' = s.tls_pinning_enabled
    /\ allow_alternative_routes' = s.allow_alternative_routes
    /\ force_skip_alternative_routing' = s.force_skip_alternative_routing
    /\ session_data' = s.session_data
    /\ adapters' = s.adapters
    /\ headers' = s.headers
    /\ cookies' = s.cookies
    /\ captcha_token' = s.captcha_token
    /\ call' = Idle
    /\ frame' = NoFrame
    /\ last' = NoRequest
    /\ result' = NoResult
    /\ since' = NoSince

(***************************************************************************)
(* The public methods, called on a session that runs no method.            *)
(***************************************************************************)
Endpoints == {"/vpn/config"}

\* The (method, jsondata) arguments a caller passes.
Arguments ==
    { <<None, None>>, <<None, "json">>, <<"delete", None>>, <<"trace", None>> }

SessionConfig == <<api_url, appversion, user_agent, tls_pinning_enabled>>

ApiRequestTo(endpoints) ==
    /\ call.op = "idle"
    /\ UNCHANGED <<SessionConfig, allow_alternative_routes,
                   force_skip_alternative_routing>>
    /\ \E endpoint \in endpoints, args \in Arguments :
          Attempt(NewCall("api_request", "", Snapshot),
                  NewFrame(endpoint, args[1], args[2]), since)

ApiRequest == ApiRequestTo(Endpoints)

\* A caller's api_request to an endpoint behind human verification.
ApiRequestUsers == ApiRequestTo({"/users"})

Logout ==
    /\ call.op = "idle"
    /\ UNCHANGED <<SessionConfig, allow_alternative_routes,
                   force_skip_alternative_routing>>
    /\ IF session_data # EmptyDict
       THEN Attempt(NewCall("logout", "", Snapshot), NewFrame("/auth", "DELETE", None),
                    since)
       ELSE /\ result' = [NoResult EXCEPT !.op = "logout",
                                          !.status = "returned"]
            /\ since' = SinceLogout
            /\ last' = NoRequest
            /\ UNCHANGED <<session_data, headers, cookies, adapters,
                           captcha_token, route_cache, call, frame>>

Authenticate ==
    /\ call.op = "idle"
    /\ UNCHANGED <<SessionConfig, allow_alternative_routes,
                   force_skip_alternative_routing>>
    /\ IF session_data # EmptyDict
       THEN Attempt(NewCall("authenticate", "logout", Snapshot),
                    NewFrame("/auth", "DELETE", None), since)
       ELSE Attempt(NewCall("authenticate", "info", Snapshot),
                    NewFrame("/auth/info", None, "payload"),
                    SinceLogout)

Provide2fa ==
    /\ call.op = "idle"
    /\ UNCHANGED <<SessionConfig, allow_alternative_routes,
                   force_skip_alternative_routing>>
    /\ Attempt(NewCall("provide_2fa", "", Snapshot), NewFrame("/auth/2fa", None, "payload"),
               since)

Refresh ==
    /\ call.op = "idle"
    /\ UNCHANGED <<SessionConfig, allow_alternative_routes,
                   force_skip_alternative_routing>>
    /\ Attempt(NewCall("refresh", "", Snapshot), NewFrame("/auth/refresh", None, "payload"),
               since)

\* The running method issues its next api_request.
Send ==
    /\ call.op # "idle"
    /\ frame.phase = "first"
    /\ UNCHANGED <<SessionConfig, allow_alternative_routes,
                   force_skip_alternative_routing>>
    /\ Attempt(call, frame, since)

ProbeStep ==
    /\ Probe
    /\ UNCHANGED <<SessionConfig, allow_alternative_routes,
                   force_skip_alternative_routing>>

\* The resolver while only the first provider can be reached.
FirstProviderOnly ==
    { fates \in [DOMAIN DNS_HOSTS -> WorkerFates] :
        \A h \in DOMAIN DNS_HOSTS :
            h > 1 => fates[h] = Worker("ConnectionError", 0, NoContent, TRUE) }

ResolveStep ==
    /\ Resolve(FirstProviderOnly)
    /\ UNCHANGED <<SessionConfig, allow_alternative_routes,
                   force_skip_alternative_routing>>

\* The resolver worker by worker: a provider cannot be reached, does not
\* answer in time, or answers with bytes that may be a DNS message, with
\* one published host.
PoolFates ==
    { fate \in WorkerFates :
        /\ fate.exc \in {"", "ConnectionError"}
        /\ fate.status \in {0, 200}
        /\ fate.content # EmptyContent
        /\ \A i \in DOMAIN fate.content.answer :
              fate.content.answer[i] \subseteq {Txt("alt1")} }

SubmitStep ==
    /\ Submit([DOMAIN DNS_HOSTS -> PoolFates])
    /\ UNCHANGED <<SessionConfig, allow_alternative_routes,
                   force_skip_alternative_routing>>

WorkerDoneStep ==
    /\ WorkerDone
    /\ UNCHANGED <<SessionConfig, allow_alternative_routes,
                   force_skip_alternative_routing>>

CollectStep ==
    /\ Collect
    /\ UNCHANGED <<SessionConfig, allow_alternative_routes,
                   force_skip_alternative_routing>>

\* The resolver whatever becomes of each provider.
ResolveAnyStep ==
    /\ Resolve([DOMAIN DNS_HOSTS -> WorkerFates])
    /\ UNCHANGED <<SessionConfig, allow_alternative_routes,
                   force_skip_alternative_routing>>

AltTryStep ==
    /\ AltTry
    /\ UNCHANGED <<SessionConfig, allow_alternative_routes,
                   force_skip_alternative_routing>>

\* The values a caller may assign, as Python literals, and bool() of them.
FalsyValues == {"False", None, "0", "''"}

TruthyValues == {"True", "1", "'no'"}

Bool(newvalue) == IF newvalue \in FalsyValues THEN "False" ELSE "True"

\* A setter that stores the value as it is given.
AssignAsGiven(allow, newvalue) == newvalue

\* Lines 634-635: `if allow != bool(newvalue): allow = bool(newvalue)`.
AssignPolicy(allow, newvalue) ==
    IF allow # Bool(newvalue) THEN Bool(newvalue) ELSE allow

\* The setter of enable_alternative_routing, lines 623-635.
SetEnableAlternativeRouting(values) ==
    /\ call.op = "idle"
    /\ \E newvalue \in values :
          allow_alternative_routes' =
              AssignPolicy(allow_alternative_routes, newvalue)
    /\ last' = NoRequest
    /\ UNCHANGED <<SessionConfig, force_skip_alternative_routing, session_data,
                   headers, cookies, adapters, captcha_token, route_cache, call,
                   frame, result, since>>

\* The setter of force_skip_alternative_routing, lines 642-655.
SetForceSkipAlternativeRouting ==
    /\ call.op = "idle"
    /\ \E newvalue \in BOOLEAN : force_skip_alternative_routing' = newvalue
    /\ last' = NoRequest
    /\ UNCHANGED <<SessionConfig, allow_alternative_routes, session_data,
                   headers, cookies, adapters, captcha_token, route_cache, call,
                   frame, result, since>>

\* The setter of human_verification_token, lines 666-672.
SetHumanVerificationToken ==
    /\ call.op = "idle"
    /\ \E newtuplevalue \in {"captcha"} \X HumanVerificationTokens :
          headers' = Put(Put(headers, "X-PM-Human-Verification-Token-Type",
                             newtuplevalue[1]),
                         "X-PM-Human-Verification-Token", newtuplevalue[2])
    /\ last' = NoRequest
    /\ UNCHANGED <<SessionConfig, allow_alternative_routes,
                   force_skip_alternative_routing, session_data, cookies,
                   adapters, captcha_token, route_cache, call, frame, result,
                   since>>

\* The session is dumped and a new session is loaded from the dump; the
\* Route Cache outlives the session object.
Load ==
    /\ call.op = "idle"
    /\ Becomes(load(dump, tls_pinning_enabled))
    /\ UNCHANGED route_cache

\* Time passes: the stored route reaches its expiry.
Expire ==
    /\ route_cache.url # ""
    /\ ~route_cache.expired
    /\ route_cache' = [route_cache EXCEPT !.expired = TRUE]
    /\ last' = NoRequest
    /\ UNCHANGED <<SessionConfig, allow_alternative_routes,
                   force_skip_alternative_routing, session_data, headers,
                   cookies, adapters, captcha_token, call, frame, result,
                   since>>

\* A session as its constructor leaves it, and an empty Route Cache.
Constructed(tls_pinning) ==
    LET s == NewSession(ApiUrl, "App_1.0", "App/1.0 (Linux)", tls_pinning)
    IN  /\ api_url = s.api_url
        /\ appversion = s.appversion
        /\ user_agent = s.user_agent
        /\ tls_pinning_enabled = s.tls_pinning_enabled
        /\ allow_alternative_routes = s.allow_alternative_routes
        /\ force_skip_alternative_routing = s.force_skip_alternative_routing
        /\ session_data = s.session_data
        /\ adapters = s.adapters
        /\ headers = s.headers
        /\ cookies = s.cookies
        /\ captcha_token = s.captcha_token
        /\ route_cache = NoRoute
        /\ call = Idle
        /\ frame = NoFrame
        /\ last = NoRequest
        /\ result = NoResult
        /\ since = NoSince

(***************************************************************************)
(* The session manager: every public method, on a session constructed      *)
(* with the default tls_pinning=True whose caller leaves alternative       *)
(* routing unset or disables it.                                           *)
(***************************************************************************)
Init == Constructed(TRUE)

Next ==
    \/ ApiRequest
    \/ Logout
    \/ Authenticate
    \/ Provide2fa
    \/ Refresh
    \/ Send
    \/ SetEnableAlternativeRouting(FalsyValues)
    \/ Load

Spec == Init /\ [][Next]_vars

(***************************************************************************)
(* The request engine: api_request with the alternative-routing settings,  *)
(* the Route Cache and its expiry, on sessions with and without pinning.   *)
(***************************************************************************)
InitRouting == \E tls_pinning \in BOOLEAN : Constructed(tls_pinning)

NextRouting ==
    \/ ApiRequest
    \/ ProbeStep
    \/ ResolveStep
    \/ AltTryStep
    \/ SetEnableAlternativeRouting(FalsyValues \cup TruthyValues)
    \/ SetForceSkipAlternativeRouting
    \/ Load
    \/ Expire

SpecRouting == InitRouting /\ [][NextRouting]_vars

(***************************************************************************)
(* The detour of api_request on a session with pinning and alternative     *)
(* routing enabled, when every HTTP call and every DoH query comes to an   *)
(* end, so that a running api_request always takes its next step.          *)
(***************************************************************************)
InitDetour == Constructed(TRUE)

NextDetour ==
    \/ ApiRequest
    \/ ProbeStep
    \/ ResolveStep
    \/ AltTryStep
    \/ SetEnableAlternativeRouting(TruthyValues)

SpecDetour ==
    /\ InitDetour
    /\ [][NextDetour]_vars
    /\ WF_vars(ProbeStep)
    /\ WF_vars(ResolveStep)
    /\ WF_vars(AltTryStep)

(***************************************************************************)
(* The response decoder: api_request to an endpoint behind human           *)
(* verification, on a session whose caller sets the human-verification     *)
(* headers and has alternative routing disabled.                           *)
(***************************************************************************)
InitDecode == \E tls_pinning \in BOOLEAN : Constructed(tls_pinning)

NextDecode ==
    \/ ApiRequestUsers
    \/ SetEnableAlternativeRouting(FalsyValues)
    \/ SetHumanVerificationToken

SpecDecode == InitDecode /\ [][NextDecode]_vars

(***************************************************************************)
(* The DoH resolver: api_request on a session with pinning and alternative *)
(* routing enabled, with every fate of every DoH provider.                 *)
(***************************************************************************)
InitDns == Constructed(TRUE)

NextDns ==
    \/ ApiRequest
    \/ ProbeStep
    \/ ResolveAnyStep
    \/ AltTryStep
    \/ SetEnableAlternativeRouting(TruthyValues)

SpecDns == InitDns /\ [][NextDns]_vars

(***************************************************************************)
(* The worker pool of the resolver: the same, with the workers of a turn   *)
(* completing in any order.                                                *)
(***************************************************************************)
InitWorkers == Constructed(TRUE)

NextWorkers ==
    \/ ApiRequest
    \/ ProbeStep
    \/ SubmitStep
    \/ WorkerDoneStep
    \/ CollectStep
    \/ AltTryStep
    \/ SetEnableAlternativeRouting(TruthyValues)

SpecWorkers == InitWorkers /\ [][NextWorkers]_vars

(***************************************************************************)
(* The properties.                                                         *)
(***************************************************************************)
HoldsCredentials == Get(session_data, "UID") # None

\* C1: while enable_alternative_routing has never been set, every call that
\* reaches api_request (directly, or through authenticate, provide_2fa,
\* refresh or logout) ends with the policy-not-configured RuntimeError, and
\* no request, probe or DoH query has been sent.  A logout on a session
\* without data makes no api_request and just returns.
C1_UnsetPolicyFailsWithoutIO ==
    allow_alternative_routes = None =>
        /\ call.op = "idle"
        /\ ~last.sent
        /\ frame.probes = 0 /\ frame.resolved = 0
        /\ \/ result.op = "none"
           \/ result.status = "RuntimeError" /\ ~result.io
           \/ /\ result.op = "logout" /\ ~result.held
              /\ result.status = "returned" /\ ~result.io

\* C1 witness: a session that holds credentials and whose policy is unset
\* had a refresh fail with the RuntimeError.
C1_Witness ==
    /\ allow_alternative_routes = None
    /\ HoldsCredentials
    /\ result.op = "refresh"
    /\ result.status = "RuntimeError"

\* C2: on a session with TLS pinning, every request sent with verify=False
\* goes through a pinning adapter with the ALT pin set that this session
\* mounted for the request's URL, whether the URL comes from the retry loop
\* or from the Route Cache.
C2_UnverifiedRequestsArePinned ==
    tls_pinning_enabled /\ last.sent /\ ~last.verify => last.adapter = "ALT"

\* C3: whenever no method is running and the session data is non-empty, it
\* holds a non-empty UID and AccessToken, x-pm-uid is that UID and
\* Authorization is "Bearer " followed by that AccessToken.
C3_CredentialsMatchHeaders ==
    call.op = "idle" /\ session_data # EmptyDict =>
        /\ Get(session_data, "UID") \notin {None, ""}
        /\ Get(session_data, "AccessToken") \notin {None, ""}
        /\ Get(headers, "x-pm-uid") = session_data.UID
        /\ Get(headers, "Authorization") = Bearer(session_data.AccessToken)

\* The last call to end was `op`, and no method is running.
Ended(op) == call.op = "idle" /\ result.op = op

HasReturned(op) == Ended(op) /\ result.status = "returned"

HeadersMatchCredentials ==
    /\ Get(headers, "x-pm-uid") = session_data.UID
    /\ Get(headers, "Authorization") = Bearer(session_data.AccessToken)

NoAuthHeaders == ~Has(headers, "x-pm-uid") /\ ~Has(headers, "Authorization")

C4_RejectedProofSeen == Ended("authenticate") /\ result.server_proof = "rejected"

AuthenticationErrors ==
    {"ValueError: Invalid modulus", "ValueError: Invalid challenge",
     "ValueError: Invalid password", "ValueError: Invalid server proof"}

\* C5, as stated: the step in which authenticate fails with an
\* authentication error leaves the credentials and the x-pm-uid and
\* Authorization headers as they were when the call began.
C5_AuthErrorKeepsState ==
    [][ call.op = "authenticate" /\ call'.op = "idle"
        /\ result'.status \in AuthenticationErrors
        => /\ session_data' = call.pre.session_data
           /\ Get(headers', "x-pm-uid") = call.pre.uid
           /\ Get(headers', "Authorization") = call.pre.auth ]_vars

\* C5, amended: after authenticate has failed with an authentication error
\* the session holds no data and neither x-pm-uid nor Authorization: a
\* session that held credentials has been logged out by the call, and only
\* a session that held none is as it was.
C5_AuthErrorLeavesLoggedOut ==
    Ended("authenticate") /\ result.status \in AuthenticationErrors =>
        session_data = EmptyDict /\ NoAuthHeaders

\* C5 witness: authenticate failed with an authentication error on a session
\* that held credentials when the call began.
C5_Witness ==
    /\ Ended("authenticate")
    /\ result.status \in AuthenticationErrors
    /\ result.held

\* C6: a logout of a session that holds credentials whose DELETE /auth
\* fails with a transport error returns all the same, and leaves the session
\* data empty and the x-pm-uid and Authorization headers removed.
C6_LogoutSuppressesTransportErrors ==
    [][ /\ call.op = "idle" /\ HoldsCredentials
        /\ call'.op = "idle" /\ result'.op = "logout"
        /\ last'.sent /\ ~last'.answered
        => /\ result'.status = "returned"
           /\ session_data' = EmptyDict
           /\ ~Has(headers', "x-pm-uid") /\ ~Has(headers', "Authorization") ]_vars

\* C7, first part: when logout has returned the session data is empty, and
\* from then on, until an authenticate returns, the session has no x-pm-uid
\* and no Authorization header and no request that is sent carries one.
C7_NoCredentialsSentAfterLogout ==
    /\ [](HasReturned("logout") => session_data = EmptyDict)
    /\ [][ since.op = "logout" /\ ~HasReturned("authenticate")'
           => /\ NoAuthHeaders'
              /\ last'.sent => last'.uid = None /\ last'.auth = None ]_vars

\* C7, second part: a logout on a session without session data returns, sends
\* no request and leaves headers and cookies as they are.
C7_LogoutWithoutSessionIsNoOp ==
    [][ /\ call.op = "idle" /\ session_data = EmptyDict
        /\ call'.op = "idle" /\ result'.op = "logout" /\ since' = SinceLogout
        => /\ result'.status = "returned"
           /\ ~last'.sent
           /\ UNCHANGED <<session_data, headers, cookies>> ]_vars

\* C8: in the wake of a refresh that returned (until a refresh, authenticate
\* or logout begins) the stored AccessToken and RefreshToken are those of
\* the /auth/refresh response, the Authorization header is "Bearer "
\* followed by that AccessToken, and so is the Authorization of every
\* request sent since.
C8_RefreshInstallsNewTokens ==
    since.op = "refresh" =>
        /\ Get(session_data, "AccessToken") = since.AccessToken
        /\ Get(session_data, "RefreshToken") = since.RefreshToken
        /\ Get(headers, "Authorization") = Bearer(since.AccessToken)
        /\ last.sent /\ ~HasReturned("refresh") =>
              last.auth = Bearer(since.AccessToken)

\* C8 witness: a request was sent after a refresh that replaced another
\* AccessToken.
C8_Witness ==
    /\ since.op = "refresh"
    /\ Ended("api_request")
    /\ last.sent
    /\ last.auth = "Bearer a2"
    /\ Get(session_data, "UID") = "u1"

\* C9: for every session no method is running on, the session loaded from
\* its dump has the same api_url, x-pm-appversion and User-Agent, the same
\* cookies, the same UID and Scope, the same x-pm-uid and Authorization
\* when the dumped session holds credentials, and neither header when it
\* holds none.
C9_DumpLoadRoundTrip ==
    call.op = "idle" =>
        LET loaded == load(dump, tls_pinning_enabled)
            same(h) == Get(loaded.headers, h) = Get(headers, h)
        IN  /\ loaded.api_url = api_url
            /\ same("x-pm-appversion") /\ same("User-Agent")
            /\ get_dict(loaded.cookies) = get_dict(cookies)
            /\ Get(loaded.session_data, "UID") = Get(session_data, "UID")
            /\ Get(loaded.session_data, "Scope") = Get(session_data, "Scope")
            /\ IF HoldsCredentials
               THEN same("x-pm-uid") /\ same("Authorization")
               ELSE /\ ~Has(loaded.headers, "x-pm-uid")
                    /\ ~Has(loaded.headers, "Authorization")

RouteInUse ==
    /\ allow_alternative_routes = "True"
    /\ ~force_skip_alternative_routing
    /\ route_cache.url # ""
    /\ ~route_cache.expired

\* C10: when a request of the alt-routing retry has been answered, its URL
\* is the route the Route Cache holds; and the first request of an
\* api_request made with alternative routing enabled, force-skip off and an
\* unexpired route in the cache goes to the cached URL, with no DoH query
\* issued by that call before it.
C10_CachedRouteIsUsedDirectly ==
    /\ last.sent /\ last.phase = "alt" /\ last.answered =>
          route_cache = store_alternative_route(last.url)
    /\ last.sent /\ last.phase = "first" /\ RouteInUse =>
          /\ last.url = route_cache.url
          /\ ~last.verify
          /\ frame.resolved = 0

\* C10 witness: the session that mounted the ALT adapter for the route it
\* stored has had a later api_request answered at the cached URL.
C10_Witness ==
    /\ RouteInUse
    /\ last.sent /\ last.phase = "first" /\ last.answered
    /\ last.url = route_cache.url
    /\ last.adapter = "ALT"
    /\ HasReturned("api_request")

\* C11: when the alt-routing detour of an api_request ends, NetworkError is
\* raised exactly when no host has answered (so none was stored), and when
\* NetworkError is raised the Route Cache is as it was.
C11_RouteStoredIffReturned ==
    [][ frame.phase \in {"doh", "alt"} /\ call'.op = "idle"
        => /\ result'.status = "NetworkError" <=> ~last'.answered
           /\ result'.status = "NetworkError" => route_cache' = route_cache ]_vars

\* C12: once the first attempt of an api_request has failed with a TLS
\* pinning error, no later request of the same call (liveness probe or
\* replay) is sent to the host whose pin check failed.
C12_NoRequestAfterPinningError ==
    [][ frame.exception_class = "TLSPinningError" /\ last'.sent
        => last'.url # frame.url ]_vars

\* A field of the JSON body of the response just received, None where there
\* is none.
Received(key) == Get(last.resp.body, key)

\* The Modulus was signed, validly, by the SRP modulus key.
SignedBySrpKey(armored) ==
    armored \in {"signed"}

\* C13: authenticate is about to POST /auth only when the /auth/info answer
\* it just received carried a Modulus validly signed by the SRP modulus key
\* and a challenge that yields a client proof; and after an /auth/info
\* answer whose Modulus is signed by another key, badly signed or malformed,
\* authenticate has ended with the invalid-modulus error, so that /auth was
\* not called.
C13_AuthOnlyAfterVerifiedModulus ==
    /\ call.op = "authenticate" /\ call.stage = "auth"
       => /\ last.answered
          /\ SignedBySrpKey(Received("Modulus"))
          /\ Received("ServerEphemeral") \notin {None, "B_zero"}
    /\ Received("Modulus") # None /\ ~SignedBySrpKey(Received("Modulus"))
       => /\ call.op = "idle"
          /\ result.op = "authenticate"
          /\ result.status = "ValueError: Invalid modulus"

\* authenticate is about to POST /auth after a verified Modulus.
C13_Witness ==
    /\ call.op = "authenticate" /\ call.stage = "auth"
    /\ Received("Modulus") = "signed"

\* authenticate has ended on a Modulus signed by the wrong key.
C13_RejectedModulusSeen ==
    /\ Received("Modulus") = "wrong_key"
    /\ result.status = "ValueError: Invalid modulus"

HumanVerificationHeaders(hdrs) ==
    <<Get(hdrs, "X-PM-Human-Verification-Token-Type"),
      Get(hdrs, "X-PM-Human-Verification-Token")>>

\* C14: an api_request that receives a JSON response with a Code returns
\* iff the Code is 1000 or 1001 and raises ProtonAPIError otherwise; Code
\* 9001 puts Details.HumanVerificationToken in the captured token, Code
\* 12087 removes both human-verification headers, and apart from these the
\* captured token and the human-verification headers stay as they are.
C14_CodeDecidesOutcome ==
    [][ /\ call.op = "idle" /\ call'.op = "idle" /\ result'.op = "api_request"
        /\ last'.answered /\ last'.resp.json /\ Has(last'.resp.body, "Code")
        => LET response == last'.resp.body
           IN  /\ response.Code \in {1000, 1001}
                      <=> result'.status = "returned"
               /\ response.Code \notin {1000, 1001}
                      => result'.status = "ProtonAPIError"
               /\ captcha_token' =
                      IF response.Code = 9001
                      THEN Get(Get(response, "Details"), "HumanVerificationToken")
                      ELSE captcha_token
               /\ HumanVerificationHeaders(headers') =
                      IF response.Code = 12087 THEN <<None, None>>
                      ELSE HumanVerificationHeaders(headers) ]_vars

\* C15: an api_request whose request (the first attempt or its replay on an
\* alternative route) is answered with a body that is not JSON returns when
\* the HTTP status is 200 and raises ProtonAPIError for any other status.
C15_NonJsonAnswer ==
    [][ /\ call'.op = "idle" /\ result'.op = "api_request"
        /\ last'.answered /\ last'.phase \in {"first", "alt"}
        /\ ~last'.resp.json
        => result'.status = IF last'.resp.status = 200 THEN "returned"
                            ELSE "ProtonAPIError" ]_vars

\* C16: the DoH resolver and the retry loop run only in a call whose first
\* attempt failed with a new-connection, timeout or TLS-pinning error while
\* alternative routing was enabled and force-skip was off, and only after
\* the /tests/ping probe, sent once, failed with a transport error.  A first
\* attempt that fails otherwise ends the call in the same step with that
\* error, and a probe that fails is followed by no probe of its own.
C16_DetourOnlyAfterFailedProbe ==
    /\ [](frame.phase \in {"doh", "alt"} =>
            /\ frame.exception_class \in RetryableErrors
            /\ allow_alternative_routes = "True"
            /\ ~force_skip_alternative_routing
            /\ frame.probes = 1)
    /\ [][ /\ frame.phase = "probe" /\ frame'.phase = "doh"
              => last'.phase = "probe" /\ last'.sent /\ ~last'.answered
           /\ frame'.phase \in {"doh", "alt"} /\ frame.phase # frame'.phase
              => \/ frame.phase = "probe" /\ frame'.phase = "doh"
                 \/ frame.phase = "doh" /\ frame'.phase = "alt"
           /\ call.op = "idle" /\ last'.sent /\ ~last'.answered
              => IF /\ allow_alternative_routes = "True"
                    /\ ~force_skip_alternative_routing
                    /\ frame'.exception_class \in RetryableErrors
                 THEN frame'.phase = "probe" /\ last'.phase = "first"
                 ELSE /\ call'.op = "idle"
                      /\ last'.phase = "first"
                      /\ result'.status \in RetryableErrors
                                             \cup {"UnknownConnectionError"}
                      /\ frame' = NoFrame ]_vars

\* C16 witness: the resolver has run and the retry loop is about to try a
\* host.
C16_Witness == frame.phase = "alt" /\ frame.resolved = 1 /\ frame.routes # <<>>

\* A first attempt failed with force-skip set and was raised at once.
C16_ForceSkipSeen ==
    /\ force_skip_alternative_routing /\ allow_alternative_routes = "True"
    /\ last.sent /\ ~last.answered /\ call.op = "idle"
    /\ result.status \in RetryableErrors

\* A collected response whose answer section holds TXT records, and the
\* hostnames in it.
HasAnswers(content) == content.wire /\ content.answer # <<>>

HostnamesOf(content) ==
    UNION { { Strip(url) : url \in content.answer[i] } :
            i \in DOMAIN content.answer }

\* C17: once the resolver has collected, for an encoded name, a response
\* with a non-empty answer section, it has returned (no later name is
\* queried) and what it returned are the hostnames of the first such
\* response, whatever the responses collected after it.
C17_FirstAnswerWins ==
    LET collected == frame.dns.dns_hosts_response
        answering == { i \in DOMAIN collected : HasAnswers(collected[i]) }
        first == CHOOSE i \in answering : \A j \in answering : i <= j
    IN  answering # {} =>
            /\ frame.phase = "alt"
            /\ frame.dns.routes = HostnamesOf(collected[first])

\* C18: whatever becomes of the DoH providers, the resolver does not raise:
\* with dnspython installed, a turn of the resolver ends the api_request
\* only when no name yielded a route, and then with NetworkError.
C18_ProviderFailuresAreSwallowed ==
    [][ /\ frame.phase = "doh" /\ call'.op = "idle"
        /\ result'.status # "MissingDepedencyError"
        => result'.status = "NetworkError" ]_vars

\* C19: a refresh or a logout of a session that holds credentials, when it
\* fails, leaves the session data and the x-pm-uid and Authorization
\* headers as they were before the call.
C19_FailedCallChangesNothing ==
    [][ /\ call.op = "idle" /\ HoldsCredentials
        /\ call'.op = "idle" /\ result'.op \in {"refresh", "logout"}
        /\ result'.status # "returned"
        => /\ session_data' = session_data
           /\ Get(headers', "x-pm-uid") = Get(headers, "x-pm-uid")
           /\ Get(headers', "Authorization") = Get(headers, "Authorization") ]_vars

\* The errors api_request is meant to raise.
Taxonomy ==
    {"RuntimeError", "ValueError", "NewConnectionError",
     "ConnectionTimeOutError", "TLSPinningError", "UnknownConnectionError",
     "MissingDepedencyError", "NetworkError", "ProtonAPIError"}

\* C20: an api_request that has ended has returned a response or raised an
\* error of the taxonomy; a ProtonAPIError is raised only in a step that
\* received a response; and a call whose probe was answered does not end
\* with an error from decoding a response it never received.
C20_EndsWithinTaxonomy ==
    /\ [](Ended("api_request") => result.status \in Taxonomy \cup {"returned"})
    /\ [][ call'.op = "idle" /\ result'.op = "api_request"
           /\ result'.status = "ProtonAPIError" /\ result' # result
           => last'.answered ]_vars

\* C21: a session whose policy is enabled or disabled keeps it enabled or
\* disabled through every step of every method and every later assignment
\* (of a truthy value, a falsy value or None), and no api_request of it
\* ends with the policy-not-configured error; only the new session that
\* load builds from a dump starts unset again.
C21_PolicyStaysSet ==
    [][ /\ allow_alternative_routes # None /\ ~Load
           => /\ allow_alternative_routes' \in {"True", "False"}
              /\ result' # result => result'.status # "RuntimeError"
        /\ Load => allow_alternative_routes' = None ]_vars

\* C21 witness: a session whose policy was assigned has authenticated and
\* then run a refresh that failed.
C21_Witness ==
    /\ allow_alternative_routes = "False"
    /\ HoldsCredentials
    /\ Ended("refresh") /\ result.status # "returned"

\* C22: when the pool of a turn of the resolver has been collected, what
\* the turn yields (the responses kept, the routes, or the error that ends
\* the call) is what the fates of the providers, taken in the order of the
\* provider list, determine, in whatever order the workers completed.
C22_ResultIndependentOfCompletionOrder ==
    [][ frame.pool.running /\ ~frame'.pool.running
        => LET fates == frame.pool.fates
               in_list_order ==
                   Filter([h \in DOMAIN DNS_HOSTS |-> query_for_dns_data(fates[h])])
               expected == ExtractAll(in_list_order, frame.dns.routes)
           IN  IF \E h \in DOMAIN DNS_HOSTS : ~fates[h].finished
               THEN call'.op = "idle" /\ result'.status = "TimeoutError"
               ELSE IF expected.exc # ""
               THEN call'.op = "idle" /\ result'.status = expected.exc
               ELSE IF call'.op = "idle"
               THEN expected.routes = {} /\ result'.status = "NetworkError"
               ELSE /\ frame'.dns.dns_hosts_response = in_list_order
                    /\ frame'.dns.routes = expected.routes ]_vars

\* C22 witness: the resolver has returned routes from a turn in which both
\* providers answered with a DNS message and the second provider's worker
\* completed before the first's.
C22_Witness ==
    /\ frame.phase = "alt"
    /\ ~frame.pool.running
    /\ frame.pool.completed = <<2, 1>>
    /\ Len(frame.dns.dns_hosts_response) = 2
    /\ frame.pool.fates[1] # frame.pool.fates[2]

\* How far an api_request has come.
Rank(phase) ==
    CASE phase = "first" -> 1
      [] phase = "probe" -> 2
      [] phase = "doh"   -> 3
      [] phase = "alt"   -> 4
      [] OTHER           -> 5

\* C23: every api_request that has begun ends.  It only moves forward, from
\* its first attempt to the probe, the resolver, the retry loop and its
\* end: a probe is sent once, and the step that sends it goes on to the
\* resolver or ends the call; the resolver returns once, after at most one
\* turn per encoded name; and each turn of the retry loop sends the request
\* to the first of the remaining hosts, which is not tried again, and ends
\* the call when that host answers.
C23_ApiRequestTerminates ==
    /\ (call.op # "idle") ~> (call.op = "idle")
    /\ [](/\ frame.probes <= 1 /\ frame.resolved <= 1
          /\ frame.dns.queried <= Len(ENCODED_URLS))
    /\ [][ /\ frame'.phase # frame.phase /\ frame.phase # "none"
              => Rank(frame'.phase) > Rank(frame.phase)
           /\ last'.sent /\ last'.phase = "probe"
              => /\ frame.phase = "probe" /\ frame.probes = 0
                 /\ frame'.phase \in {"doh", "none"}
           /\ frame.phase = "doh" /\ frame'.phase = "doh" /\ frame' # frame
              => frame'.dns.queried = frame.dns.queried + 1
           /\ last'.sent /\ last'.phase = "alt"
              => /\ frame.phase = "alt"
                 /\ last'.url = AltUrlOf(Head(frame.routes))
                 /\ last'.answered => call'.op = "idle"
                 /\ call'.op # "idle"
                       => /\ Len(frame'.routes) < Len(frame.routes)
                          /\ \A i \in DOMAIN frame'.routes :
                                frame'.routes[i] # Head(frame.routes) ]_vars

\* C23 witness: an api_request has ended after its probe failed, the
\* resolver returned two hosts and neither of them could be reached.
C23_Witness ==
    /\ Ended("api_request")
    /\ result.status = "NetworkError"
    /\ last.sent /\ last.phase = "alt" /\ ~last.answered
    /\ last.url = AltUrlOf("alt2")
    /\ route_cache = NoRoute

====
